---- MODULE Spec2Model ----
(***************************************************************************)
(* A model of src/src/index.ts: the selector cache file (loadCache,        *)
(* saveCache), the access-token cache (getValidAccessToken), the model     *)
(* client (queryGeminiAPI), the resolver loop (getAiSelector) and the page *)
(* extension (aiLocator, aiLocatorAll, highlightAILocator).                *)
(*                                                                         *)
(* JavaScript values are tagged records: [t |-> "undefined"],              *)
(* [t |-> "null"], [t |-> "num"], [t |-> "str", s |-> <tokens>],           *)
(* [t |-> "obj", props |-> m] and [t |-> "arr", props |-> m].  A string is *)
(* a sequence of tokens, so that trim() and startsWith() are computed.     *)
(* Every asynchronous function is cut at its awaits: one action per        *)
(* stretch of code between two awaits.                                     *)
(***************************************************************************)
EXTENDS Integers, Sequences, FiniteSets, TLC

\* ------------------------------------------------------------ bounds

\* The largest `retries` option a caller passes.
MaxRetriesOpt == 2
\* The largest Retry-After value, in seconds, the backend sends.
MaxHintSeconds == 2
\* Calls start and the clock ticks while the clock is at most this many minutes.
MaxClockMinutes == 60

\* ------------------------------------------------- program constants

\* options?.retries || 3
DefaultRetries == 3
\* the radix parseInt uses for "30", "12", ...
Radix == 10
\* parseInt(...) * 1000
MsPerSecond == 1000
\* 59 * 60 * 1000
TokenLifetimeMs == 59 * 60 * 1000

\* ------------------------------------------------------- the universe

Callers == {"c1", "c2"}
URLs == {"u1", "u2"}
Descriptions == {"d1", "d2"}

\* JavaScript values.
Undefined == [t |-> "undefined"]
JsNull == [t |-> "null"]
Num(n) == [t |-> "num", n |-> n]
Str(s) == [t |-> "str", s |-> s]
Obj(m) == [t |-> "obj", props |-> m]
Arr(m) == [t |-> "arr", props |-> m]
NoProps == [u \in {} |-> Undefined]

\* The CSS selectors of the model: each identifies one element of the page.
Selectors == {<<"#a">>, <<"#b">>}

\* What the model backend may answer (before trim()).
ModelTexts ==
    { <<"#a">>, <<" ", "#b", " ">>, <<" ">>,
      <<"ERROR:", " ", "Unable">>, <<" ", "ERROR:", " ", "Unable">> }

\* ------------------------------------------------------ JS primitives

\* JavaScript truthiness, for the values the code tests.
Truthy(v) ==
    CASE v.t = "undefined" -> FALSE
      [] v.t = "null" -> FALSE
      [] v.t = "str" -> v.s # <<>>
      [] v.t = "num" -> v.n # 0
      [] OTHER -> TRUE

\* a || b
OrElse(a, b) == IF Truthy(a) THEN a ELSE b

RECURSIVE TrimStart(_)
TrimStart(s) ==
    IF s # <<>> /\ Head(s) = " " THEN TrimStart(Tail(s)) ELSE s

RECURSIVE TrimEnd(_)
TrimEnd(s) ==
    IF s # <<>> /\ s[Len(s)] = " " THEN TrimEnd(SubSeq(s, 1, Len(s) - 1)) ELSE s

\* String.prototype.trim
Trim(s) == TrimEnd(TrimStart(s))

\* response.startsWith("ERROR:")
StartsWithError(s) == s # <<>> /\ Head(s) = "ERROR:"

Digits == <<"0", "1", "2", "3", "4", "5", "6", "7", "8", "9">>
IsDigit(ch) == \E i \in 1..Len(Digits) : Digits[i] = ch
DigitValue(ch) == (CHOOSE i \in 1..Len(Digits) : Digits[i] = ch) - 1

RECURSIVE ParseDigits(_, _)
ParseDigits(s, acc) ==
    IF s # <<>> /\ IsDigit(Head(s))
    THEN ParseDigits(Tail(s), acc * Radix + DigitValue(Head(s)))
    ELSE acc

\* parseInt(text): the leading decimal digits, NaN (-1 here) when there are none.
NaN == 0 - 1
IsNaN(n) == n < 0
ParseInt(s) ==
    LET t == TrimStart(s)
    IN  IF t # <<>> /\ IsDigit(Head(t)) THEN ParseDigits(t, 0) ELSE NaN

\* The decimal text of n, as the backend writes it into the Retry-After header.
RECURSIVE Decimal(_)
Decimal(n) ==
    IF n < Radix THEN <<Digits[n + 1]>>
    ELSE Decimal(n \div Radix) \o <<Digits[(n % Radix) + 1]>>

\* obj[key] for a key that is a page URL or a description.
Get(v, key) ==
    IF v.t \in {"obj", "arr"} /\ key \in DOMAIN v.props THEN v.props[key] ELSE Undefined

\* obj[key] = val on an object or an array.
Put(v, key, val) ==
    [v EXCEPT !.props = [k \in DOMAIN v.props \cup {key} |->
                            IF k = key THEN val ELSE v.props[k]]]

\* ---------------------------------------------------- the cache file

\* The persisted document: no file, text JSON.parse rejects, or JSON text (held
\* as the value JSON.parse gives for it).
Absent == [k |-> "absent"]
Garbage == [k |-> "garbage"]
Json(v) == [k |-> "json", v |-> v]
\* The file while fs.writeFile is writing it: opened with flag 'w', so cut to
\* length 0, and holding at most a proper prefix of the new text.
Truncated == [k |-> "truncated"]

TypeError == [t |-> "TypeError"]
EmptyObj == Obj(NoProps)

\* What JSON.parse reads back from JSON.stringify(v, null, 2): an array keeps
\* its elements only, never a property named by a string key.
RECURSIVE Stringify(_)
Stringify(v) ==
    CASE v.t = "arr" -> Arr(NoProps)
      [] v.t = "obj" -> Obj([k \in DOMAIN v.props |-> Stringify(v.props[k])])
      [] OTHER -> v

\* loadCache: the parsed document; {} when reading or parsing throws.
loadCache(f) == IF f.k = "json" THEN f.v ELSE EmptyObj

\* saveCache: the document fs.writeFile leaves.
saveCache(cache) == Json(Stringify(cache))

\* cache[pageUrl]?.[description]: TypeError when cache is null.
CachedEntry(cache, pageUrl, description) ==
    IF cache.t \in {"null", "undefined"} THEN TypeError
    ELSE LET inner == Get(cache, pageUrl)
         IN  IF inner.t \in {"null", "undefined"} THEN Undefined
             ELSE Get(inner, description)

\* An update that starts from an empty mapping.
UpdateCacheFresh(cache, pageUrl, description, selector) ==
    IF cache.t \notin {"obj", "arr"} THEN TypeError
    ELSE Put(EmptyObj, pageUrl, Put(EmptyObj, description, selector))

\* An update that stores the selector under the URL, without the description.
UpdateCacheUrlOnly(cache, pageUrl, description, selector) ==
    IF cache.t \notin {"obj", "arr"} THEN TypeError ELSE Put(cache, pageUrl, selector)

\* if (!cache[pageUrl]) cache[pageUrl] = {}; cache[pageUrl][description] = selector;
\* TypeError when a property is set on a primitive.
UpdateCache(cache, pageUrl, description, selector) ==
    IF cache.t \notin {"obj", "arr"} THEN TypeError
    ELSE LET c1 == IF Truthy(Get(cache, pageUrl)) THEN cache
                   ELSE Put(cache, pageUrl, EmptyObj)
             inner == Get(c1, pageUrl)
         IN  IF inner.t \notin {"obj", "arr"} THEN TypeError
             ELSE Put(c1, pageUrl, Put(inner, description, selector))

\* The documents the file holds at the start and after outside maintenance.
StaleCache == Obj([u \in {"u1"} |-> Obj([d \in {"d1"} |-> Str(<<"#a">>)])])
FileContents ==
    { Absent, Garbage, Json(JsNull), Json(Num(5)), Json(Arr(NoProps)),
      Json(EmptyObj), Json(StaleCache) }

\* ---------------------------------------------------- the token cache

\* A token cache that keeps its token for ever.
TokenNeverExpires(tc, currentTime) == tc.t = "null"

\* A token cache that refreshes at 59 minutes, not after.
TokenExpiredEarly(tc, currentTime) ==
    tc.t = "null" \/ currentTime - tc.timestamp >= TokenLifetimeMs

\* !tokenCache || currentTime - tokenCache.timestamp > 59 * 60 * 1000
TokenExpired(tc, currentTime) ==
    tc.t = "null" \/ currentTime - tc.timestamp > TokenLifetimeMs

\* tokenCache = { token: newToken, timestamp: currentTime }
NewTokenCache(newToken, currentTime) ==
    [t |-> "obj", token |-> newToken, timestamp |-> currentTime]

\* ------------------------------------------------------ model client

\* process.env.GOOGLE_CLOUD_VERTEX_AI_API_KEY: unset, empty, or a key.
ApiKeys == {Undefined, Str(<<>>), Str(<<"key">>)}

\* An endpoint choice that takes an empty key for a key.
QueryEndpointIfSet(key) ==
    IF key.t # "undefined" THEN "generativelanguage.googleapis.com"
    ELSE "aiplatform.googleapis.com"

\* if (apiKey) ... else ...: the endpoint queryGeminiAPI posts to.
QueryEndpoint(apiKey) ==
    IF Truthy(apiKey) THEN "generativelanguage.googleapis.com"
    ELSE "aiplatform.googleapis.com"

\* getCurrentAPIEndpoint
getCurrentAPIEndpoint(apiKey) ==
    IF Truthy(apiKey) THEN "API key based endpoint (generativelanguage.googleapis.com)"
    ELSE "Access token based endpoint (aiplatform.googleapis.com)"

\* A delay read as milliseconds.
RetryAfterUnscaled(header) == ParseInt(OrElse(header, Str(<<"3", "0">>)).s)

\* parseInt(response.headers.get('Retry-After') || '30') * 1000
RetryAfterMs(header) ==
    LET n == ParseInt(OrElse(header, Str(<<"3", "0">>)).s)
    IN  IF IsNaN(n) THEN NaN ELSE n * MsPerSecond

\* wait(ms): the time setTimeout(resolve, ms) resolves at, not before.
WakeTime(start, ms) == IF IsNaN(ms) THEN start ELSE start + ms

\* response.headers.get('Retry-After') for a hint of n seconds: its decimal
\* text; null when the backend sends no hint (NoHint); an HTTP date (DateHint).
NoHint == 0 - 1
DateHint == 0 - 2
RetryAfterHeader(hint) ==
    CASE hint = NoHint -> JsNull
      [] hint = DateHint -> Str(<<"W", "e", "d", ",", " ", "2", "1">>)
      [] OTHER -> Str(Decimal(hint))

\* The hints the backend sends with a rate-limit status.
Hints == (0..MaxHintSeconds) \cup {NoHint, DateHint}

\* ------------------------------------------------------------- state

VARIABLES
    file,        \* the document at CACHE_FILE_PATH
    liveUrl,     \* page.url()
    dom,         \* the selectors that match an element of the live page
    style,       \* element.style of the element each selector identifies
    apiKey,      \* process.env.GOOGLE_CLOUD_VERTEX_AI_API_KEY
    now,         \* Date.now(), in milliseconds
    tokenCache,  \* the module's tokenCache
    call,        \* per caller: the locals of the operation in progress
    ghost,       \* per caller: the history of the operation in progress
    settled,     \* the (url, description) pairs resolved on the page as it is, the file untouched since
    written      \* what the last saveCache of a resolution call persisted

vars == <<file, liveUrl, dom, style, apiKey, now, tokenCache, call, ghost, settled, written>>

PlainStyle == [outline |-> "", zIndex |-> ""]
HighlightStyle == [outline |-> "3px solid red", zIndex |-> "10000"]

IdleCall ==
    [ pc |-> "idle", op |-> "none", description |-> "none", retriesOption |-> Undefined,
      cache |-> Undefined, pageUrl |-> "none", maxRetries |-> 0, retries |-> 0,
      selector |-> JsNull, url |-> "none", authorization |-> Undefined,
      currentTime |-> 0, wakeAt |-> 0, original |-> Undefined, result |-> Undefined ]

\* The history of one operation: the attempts ended, the source of the first
\* attempt and of the current one, the outcome of the last attempt ended, the
\* requests sent to the backend; what the current model query met; the page
\* the candidate was checked against; the style and the file at the start;
\* the document loadCache read; the document the call's write replaced.
NoQuery ==
    [ key |-> Undefined, entryCache |-> JsNull, entryNow |-> 0, acquisitions |-> 0,
      returnedAt |-> 0, reported |-> "none", rateLimitedAt |-> 0, hint |-> NoHint ]

IdleGhost ==
    [ attempts |-> 0, first |-> "none", source |-> "none", last |-> "none",
      requests |-> 0, settled |-> FALSE, query |-> NoQuery, checked |-> {},
      styleAtStart |-> Undefined, fileAtStart |-> Undefined, loaded |-> Undefined,
      replaced |-> Undefined ]

NothingWritten == [by |-> "nobody"]

\* The error getAiSelector throws when the loop ends.
Exhausted(description) ==
    [ t |-> "Error", message |-> "Failed to generate a valid selector for description: ",
      description |-> description ]

InitWith(files, doms, styles, keys) ==
    /\ file \in files
    /\ liveUrl \in URLs
    /\ dom \in doms
    /\ style \in styles
    /\ apiKey \in keys
    /\ now = 0
    /\ tokenCache = JsNull
    /\ call = [c \in Callers |-> IdleCall]
    /\ ghost = [c \in Callers |-> IdleGhost]
    /\ settled = {}
    /\ written = NothingWritten

\* ------------------------------------------------ getAiSelector steps

\* A caller invokes aiLocator, aiLocatorAll or highlightAILocator; getAiSelector
\* is entered and awaits loadCache().
StartCall(c, o, d, r) ==
    /\ call[c].pc = "idle"
    /\ call' = [call EXCEPT ![c] =
                  [IdleCall EXCEPT !.pc = "load", !.op = o, !.description = d,
                                   !.retriesOption = r]]
    /\ ghost' = [ghost EXCEPT ![c] =
                  [IdleGhost EXCEPT !.styleAtStart = style, !.fileAtStart = file]]
    /\ UNCHANGED <<file, liveUrl, dom, style, apiKey, now, tokenCache, settled, written>>

\* A default that applies only when the option is absent (??, not ||).
MaxRetriesOfNullish(retriesOption) ==
    IF retriesOption.t \in {"undefined", "null"} THEN DefaultRetries ELSE retriesOption.n

\* const maxRetries = options?.retries || 3
MaxRetriesOf(retriesOption) == OrElse(retriesOption, Num(DefaultRetries)).n

\* loadCache() resolves; pageUrl, maxRetries and retries are set.
Load(c) ==
    /\ call[c].pc = "load"
    /\ call' = [call EXCEPT ![c].pc = "loop",
                            ![c].cache = loadCache(file),
                            ![c].pageUrl = liveUrl,
                            ![c].maxRetries = MaxRetriesOf(call[c].retriesOption),
                            ![c].retries = 0]
    /\ ghost' = [ghost EXCEPT ![c].settled = <<liveUrl, call[c].description>> \in settled,
                              ![c].loaded = file]
    /\ UNCHANGED <<file, liveUrl, dom, style, apiKey, now, tokenCache, settled, written>>

\* The locals of queryGeminiAPI and getValidAccessToken, gone when they return.
LeaveQuery(k) ==
    [k EXCEPT !.url = "none", !.authorization = Undefined, !.currentTime = 0,
              !.wakeAt = 0]

\* A failed attempt that is not counted.
AdvanceUncounted(k) == [LeaveQuery(k) EXCEPT !.pc = "loop", !.selector = JsNull]

\* retries++: the attempt ends without a validated selector.
Advance(k) == [LeaveQuery(k) EXCEPT !.pc = "loop", !.retries = @ + 1, !.selector = JsNull]

\* The history of an attempt that ended with `outcome` after `sent` requests.
Ended(g, outcome, sent) ==
    [g EXCEPT !.attempts = @ + 1, !.last = outcome, !.source = "none",
              !.requests = @ + sent, !.checked = {}]

\* The attempt ends without a validated selector (continue, or the loop's end).
NextAttempt(c, outcome, sent) ==
    /\ call' = [call EXCEPT ![c] = Advance(call[c])]
    /\ ghost' = [ghost EXCEPT ![c] = Ended(ghost[c], outcome, sent)]

\* An error leaves getAiSelector (and the operation that awaits it).
Throw(c, error) ==
    /\ call' = [call EXCEPT ![c].pc = "threw", ![c].result = error]
    /\ UNCHANGED ghost

\* The history of an attempt that begins with a candidate from `source`.
Begun(g, source) ==
    [g EXCEPT !.source = source, !.last = "none", !.query = NoQuery,
              !.first = IF g.attempts = 0 THEN source ELSE @]

\* A cache consulted on every attempt.
UseCacheAlways(entry, retries) == Truthy(entry)

\* cache[pageUrl]?.[description] && retries === 0
UseCache(entry, retries) == Truthy(entry) /\ retries = 0

\* A loop test that admits one attempt more.
LoopContinuesInclusive(retries, maxRetries) == retries <= maxRetries

\* retries < maxRetries
LoopContinues(retries, maxRetries) == retries < maxRetries

\* while (retries < maxRetries) { ... } throw new Error(...): the loop test and
\* the choice between the cached selector and a model query.
LoopHead(c) ==
    /\ call[c].pc = "loop"
    /\ LET k == call[c]
           entry == CachedEntry(k.cache, k.pageUrl, k.description)
       IN  IF ~LoopContinues(k.retries, k.maxRetries) THEN Throw(c, Exhausted(k.description))
           ELSE IF entry = TypeError THEN Throw(c, TypeError)
           ELSE IF UseCache(entry, k.retries)
           THEN /\ call' = [call EXCEPT ![c].pc = "check", ![c].selector = entry]
                /\ ghost' = [ghost EXCEPT ![c] = Begun(ghost[c], "cache")]
           ELSE /\ call' = [call EXCEPT ![c].pc = "content", ![c].selector = JsNull]
                /\ ghost' = [ghost EXCEPT ![c] = Begun(ghost[c], "model")]
    /\ UNCHANGED <<file, liveUrl, dom, style, apiKey, now, tokenCache, settled, written>>

\* await page.content(): the prompt is built and queryGeminiAPI is called.
Content(c) ==
    /\ call[c].pc = "content"
    /\ call' = [call EXCEPT ![c].pc = "query"]
    /\ UNCHANGED <<file, liveUrl, dom, style, apiKey, now, tokenCache, ghost, settled, written>>

\* --------------------------------------------- queryGeminiAPI steps

\* queryGeminiAPI up to its first await: the endpoint is chosen; without an API
\* key getValidAccessToken reads the clock and either returns the cached token
\* or awaits auth.getAccessToken().
QueryStart(c) ==
    /\ call[c].pc = "query"
    /\ call' = [call EXCEPT
          ![c].url = QueryEndpoint(apiKey),
          ![c].currentTime = IF Truthy(apiKey) THEN @ ELSE now,
          ![c].authorization =
              IF ~Truthy(apiKey) /\ ~TokenExpired(tokenCache, now)
              THEN tokenCache.token ELSE Undefined,
          ![c].pc = IF Truthy(apiKey) THEN "fetch"
                    ELSE IF TokenExpired(tokenCache, now) THEN "acquire" ELSE "fetch"]
    /\ ghost' = [ghost EXCEPT ![c].query =
                    [NoQuery EXCEPT !.key = apiKey, !.entryCache = tokenCache,
                                    !.entryNow = now, !.returnedAt = now,
                                    !.reported = getCurrentAPIEndpoint(apiKey)]]
    /\ UNCHANGED <<file, liveUrl, dom, style, apiKey, now, tokenCache, settled, written>>

\* auth.getAccessToken() resolves: the token cache is replaced and its token is
\* sent as the bearer token.
AcquireToken(c) ==
    /\ call[c].pc = "acquire"
    /\ LET newToken == [t |-> "token", acquiredAt |-> now]
       IN  /\ tokenCache' = NewTokenCache(newToken, call[c].currentTime)
           /\ call' = [call EXCEPT ![c].pc = "fetch",
                                   ![c].authorization = tokenCache'.token]
    /\ ghost' = [ghost EXCEPT ![c].query.acquisitions = @ + 1,
                              ![c].query.returnedAt = now]
    /\ UNCHANGED <<file, liveUrl, dom, style, apiKey, now, settled, written>>

\* auth.getAccessToken() rejects: the error leaves queryGeminiAPI and the
\* resolver's catch advances to the next attempt.
AcquireFails(c) ==
    /\ call[c].pc = "acquire"
    /\ NextAttempt(c, "credentials-failed", 0)
    /\ UNCHANGED <<file, liveUrl, dom, style, apiKey, now, tokenCache, settled, written>>

\* fetch rejects, the status is not ok, or the response has no
\* candidates[0].content.parts[0].text: queryGeminiAPI throws, the catch advances.
FetchFails(c, failure) ==
    /\ call[c].pc = "fetch"
    /\ NextAttempt(c, failure, 1)
    /\ UNCHANGED <<file, liveUrl, dom, style, apiKey, now, tokenCache, settled, written>>

\* response.status === 429: the retry delay is read and wait() is awaited.
FetchRateLimited(c, hint) ==
    /\ call[c].pc = "fetch"
    /\ call' = [call EXCEPT ![c].pc = "wait",
                            ![c].wakeAt = WakeTime(now, RetryAfterMs(RetryAfterHeader(hint)))]
    /\ ghost' = [ghost EXCEPT ![c].requests = @ + 1, ![c].query.rateLimitedAt = now,
                              ![c].query.hint = hint]
    /\ UNCHANGED <<file, liveUrl, dom, style, apiKey, now, tokenCache, settled, written>>

\* wait() resolves, no earlier than wakeAt; queryGeminiAPI throws the
\* rate-limiting error and the catch advances.
WaitDone(c) ==
    /\ call[c].pc = "wait"
    /\ now' = IF now < call[c].wakeAt THEN call[c].wakeAt ELSE now
    /\ NextAttempt(c, "rate-limited", 0)
    /\ UNCHANGED <<file, liveUrl, dom, style, apiKey, tokenCache, settled, written>>

\* The response is ok: its trimmed text is an "ERROR:" answer (continue), an
\* empty string (if (selector) fails: retries++), or the candidate selector.
FetchAnswers(c, text) ==
    /\ call[c].pc = "fetch"
    /\ LET response == Trim(text)
       IN  IF StartsWithError(response) THEN NextAttempt(c, "model-declined", 1)
           ELSE IF ~Truthy(Str(response)) THEN NextAttempt(c, "model-empty", 1)
           ELSE /\ call' = [call EXCEPT ![c] =
                              [LeaveQuery(call[c]) EXCEPT !.pc = "check",
                                                          !.selector = Str(response)]]
                /\ ghost' = [ghost EXCEPT ![c].requests = @ + 1, ![c].query = NoQuery]
    /\ UNCHANGED <<file, liveUrl, dom, style, apiKey, now, tokenCache, settled, written>>

\* ------------------------------------------- validation and the cache

\* A validation that takes every candidate for a match.
ElementExistsAlways(selector, matching) == TRUE

\* await page.$(selector) !== null
ElementExists(selector, matching) == selector.s \in matching

\* A validation that persists the candidate whether or not it matches.
CheckStoringCandidate(c) ==
    /\ call[c].pc = "check"
    /\ LET k == call[c]
           updated == UpdateCache(k.cache, k.pageUrl, k.description, k.selector)
       IN  /\ IF ElementExists(k.selector, dom)
              THEN /\ call' = [call EXCEPT ![c].pc = IF updated = TypeError THEN "threw" ELSE "save",
                                           ![c].result = IF updated = TypeError THEN TypeError ELSE @,
                                           ![c].cache = IF updated = TypeError THEN @ ELSE updated]
                   /\ ghost' = [ghost EXCEPT ![c].checked = dom]
              ELSE NextAttempt(c, "no-match", 0)
           /\ file' = IF updated = TypeError THEN file ELSE saveCache(updated)
    /\ UNCHANGED <<liveUrl, dom, style, apiKey, now, tokenCache, settled, written>>

\* page.$(selector) resolves. A match updates the cache object and awaits
\* saveCache; no match warns and retries++.
Check(c) ==
    /\ call[c].pc = "check"
    /\ LET k == call[c]
           updated == UpdateCache(k.cache, k.pageUrl, k.description, k.selector)
       IN  IF ElementExists(k.selector, dom)
           THEN IF updated = TypeError
                THEN /\ call' = [call EXCEPT ![c].pc = "threw", ![c].result = TypeError]
                     /\ ghost' = [ghost EXCEPT ![c].checked = dom]
                ELSE /\ call' = [call EXCEPT ![c].pc = "save", ![c].cache = updated]
                     /\ ghost' = [ghost EXCEPT ![c].checked = dom]
           ELSE NextAttempt(c, "no-match", 0)
    /\ UNCHANGED <<file, liveUrl, dom, style, apiKey, now, tokenCache, settled, written>>

\* await saveCache(cache): fs.writeFile opens the file for writing, which cuts
\* it to length 0; the text is written while the call is suspended.
OpenForWrite(c) ==
    /\ call[c].pc = "save"
    /\ file' = Truncated
    /\ call' = [call EXCEPT ![c].pc = "writing"]
    /\ ghost' = [ghost EXCEPT ![c].replaced = file]
    /\ UNCHANGED <<liveUrl, dom, style, apiKey, now, tokenCache, settled, written>>

\* A save that reads the file again and stores its entry into what it finds.
SaveMerging(c) ==
    /\ call[c].pc = "save"
    /\ file' = saveCache(UpdateCache(loadCache(file), call[c].pageUrl,
                                     call[c].description, call[c].selector))
    /\ call' = [call EXCEPT ![c].pc = "returned", ![c].result = call[c].selector]
    /\ ghost' = [ghost EXCEPT ![c] = Ended(ghost[c], "match", 0)]
    /\ settled' = settled
    /\ written' = [ by |-> c, pageUrl |-> call[c].pageUrl,
                    description |-> call[c].description,
                    entry |-> CachedEntry(file'.v, call[c].pageUrl, call[c].description),
                    source |-> ghost[c].source,
                    checked |-> ghost[c].checked ]
    /\ UNCHANGED <<liveUrl, dom, style, apiKey, now, tokenCache>>

\* saveCache(cache) resolves, the text written in full, and getAiSelector
\* returns the selector.
Save(c) ==
    /\ call[c].pc \in {"save", "writing"}
    /\ file' = saveCache(call[c].cache)
    /\ call' = [call EXCEPT ![c].pc = "returned", ![c].result = call[c].selector]
    /\ ghost' = [ghost EXCEPT ![c] = Ended(ghost[c], "match", 0)]
    /\ settled' = IF dom = ghost[c].checked
                  THEN settled \cup {<<call[c].pageUrl, call[c].description>>}
                  ELSE settled
    /\ written' = [ by |-> c, pageUrl |-> call[c].pageUrl,
                    description |-> call[c].description,
                    entry |-> CachedEntry(file'.v, call[c].pageUrl, call[c].description),
                    source |-> ghost[c].source,
                    checked |-> ghost[c].checked ]
    /\ UNCHANGED <<liveUrl, dom, style, apiKey, now, tokenCache>>

\* ------------------------------------------------------------ faults

\* What fs.writeFile rejects with, and what the page rejects with.
WriteError == [t |-> "Error", message |-> "EACCES: permission denied, open"]
PageError == [t |-> "Error", message |-> "Target page, context or browser has been closed"]

\* A write failure that counts as a failed attempt.
SaveFailsRetried(c, left) ==
    /\ call[c].pc = "save"
    /\ left \in {file, Truncated}
    /\ file' = left
    /\ NextAttempt(c, "write-failed", 0)
    /\ UNCHANGED <<liveUrl, dom, style, apiKey, now, tokenCache, settled, written>>

\* await saveCache(cache) rejects, the file not opened (left as it was) or
\* opened and not written in full: nothing catches the error.
SaveFails(c, left) ==
    /\ call[c].pc = "save"
    /\ left \in {file, Truncated}
    /\ file' = left
    /\ Throw(c, WriteError)
    /\ UNCHANGED <<liveUrl, dom, style, apiKey, now, tokenCache, settled, written>>

\* A page error that counts as a failed attempt.
ContentFailsCounted(c) ==
    /\ call[c].pc = "content"
    /\ NextAttempt(c, "page-failed", 0)
    /\ UNCHANGED <<file, liveUrl, dom, style, apiKey, now, tokenCache, settled, written>>

\* await page.content() rejects, outside the try block.
ContentFails(c) ==
    /\ call[c].pc = "content"
    /\ Throw(c, PageError)
    /\ UNCHANGED <<file, liveUrl, dom, style, apiKey, now, tokenCache, settled, written>>

\* await page.$(selector) rejects, outside the try block.
CheckFails(c) ==
    /\ call[c].pc = "check"
    /\ Throw(c, PageError)
    /\ UNCHANGED <<file, liveUrl, dom, style, apiKey, now, tokenCache, settled, written>>

\* ------------------------------------------- the page extension

\* aiLocator returns this.locator(selector); aiLocatorAll returns
\* this.locator(selector).all(), the handles of the elements matching now.
Finish(c) ==
    /\ call[c].pc = "returned"
    /\ call[c].op \in {"aiLocator", "aiLocatorAll"}
    /\ call' = [call EXCEPT ![c].pc = "done",
          ![c].result =
              IF call[c].op = "aiLocator"
              THEN [t |-> "locator", selector |-> call[c].selector]
              ELSE [t |-> "locators", selector |-> call[c].selector,
                    count |-> Cardinality({call[c].selector.s} \cap dom)]]
    /\ UNCHANGED <<file, liveUrl, dom, style, apiKey, now, tokenCache, ghost, settled, written>>

\* highlightAILocator, in the page: document.querySelector(sel); an element has
\* its outline and zIndex recorded and set, and the timer is started; no element
\* resolves at once.
HighlightStart(c) ==
    /\ call[c].pc = "returned"
    /\ call[c].op = "highlightAILocator"
    /\ LET sel == call[c].selector.s
       IN  IF sel \in dom
           THEN /\ call' = [call EXCEPT ![c].pc = "highlighting",
                                        ![c].original = style[sel]]
                /\ style' = [style EXCEPT ![sel] = HighlightStyle]
           ELSE /\ call' = [call EXCEPT ![c].pc = "done", ![c].result = Undefined]
                /\ UNCHANGED style
    /\ UNCHANGED <<file, liveUrl, dom, apiKey, now, tokenCache, ghost, settled, written>>

\* An element.style that keeps the highlight's zIndex.
RestoredOutlineOnly(current, original) == [current EXCEPT !.outline = original.outline]

\* element.style after the timer's callback.
Restored(current, original) ==
    [current EXCEPT !.outline = original.outline, !.zIndex = original.zIndex]

\* The timer fires after dur milliseconds: the recorded outline and zIndex are
\* put back and the promise resolves.
HighlightEnd(c) ==
    /\ call[c].pc = "highlighting"
    /\ LET sel == call[c].selector.s
       IN  style' = [style EXCEPT ![sel] = Restored(style[sel], call[c].original)]
    /\ call' = [call EXCEPT ![c].pc = "done", ![c].result = Undefined]
    /\ UNCHANGED <<file, liveUrl, dom, apiKey, now, tokenCache, ghost, settled, written>>

\* The caller has the operation's result or error; the next operation may start.
Reset(c) ==
    /\ call[c].pc \in {"done", "threw"}
    /\ call' = [call EXCEPT ![c] = IdleCall]
    /\ ghost' = [ghost EXCEPT ![c] = IdleGhost]
    /\ written' = NothingWritten
    /\ UNCHANGED <<file, liveUrl, dom, style, apiKey, now, tokenCache, settled>>

\* ------------------------------------------------- the environment

Unsettle == [c \in Callers |-> [ghost[c] EXCEPT !.settled = FALSE]]

\* The page's document changes: elements appear or disappear.
MutatePage(matching) ==
    /\ matching # dom
    /\ dom' = matching
    /\ settled' = {}
    /\ ghost' = Unsettle
    /\ UNCHANGED <<file, liveUrl, style, apiKey, now, tokenCache, call, written>>

\* Outside maintenance deletes or rewrites the cache file between operations.
Tamper(document) ==
    /\ \A c \in Callers : call[c].pc = "idle"
    /\ document # file
    /\ file' = document
    /\ settled' = {}
    /\ ghost' = Unsettle
    /\ UNCHANGED <<liveUrl, dom, style, apiKey, now, tokenCache, call, written>>

\* The environment variable is set or unset.
SetEnv(key) ==
    /\ key # apiKey
    /\ apiKey' = key
    /\ UNCHANGED <<file, liveUrl, dom, style, now, tokenCache, call, ghost, settled, written>>

\* Time passes.
Tick(ms) ==
    /\ now' = now + ms
    /\ UNCHANGED <<file, liveUrl, dom, style, apiKey, tokenCache, call, ghost, settled, written>>

\* ---------------------------------------------------- specifications

RetriesOptions == {Undefined} \cup {Num(n) : n \in 0..MaxRetriesOpt}
Failures == {"fetch-rejected", "status-not-ok", "malformed-response"}
PlainStyles == {[s \in Selectors |-> PlainStyle]}

\* The steps of getAiSelector for caller c, the backend answering a
\* rate-limited query with one of `hints`.
Resolve(c, hints) ==
    \/ Load(c)
    \/ LoopHead(c)
    \/ Content(c)
    \/ QueryStart(c)
    \/ AcquireToken(c)
    \/ AcquireFails(c)
    \/ \E failure \in Failures : FetchFails(c, failure)
    \/ \E hint \in hints : FetchRateLimited(c, hint)
    \/ WaitDone(c)
    \/ \E text \in ModelTexts : FetchAnswers(c, text)
    \/ Check(c)
    \/ Save(c)

\* One caller resolving locators, operation after operation, against a page
\* and a cache file that change; token authentication; the backend asks for no
\* delay when it rate-limits, so the clock stands still.
Init == InitWith(FileContents, SUBSET Selectors, PlainStyles, {Undefined})

Next ==
    \/ \E o \in {"aiLocator", "aiLocatorAll"}, d \in Descriptions, r \in RetriesOptions :
          StartCall("c1", o, d, r)
    \/ Resolve("c1", {0})
    \/ Finish("c1")
    \/ Reset("c1")
    \/ \E matching \in SUBSET Selectors : MutatePage(matching)
    \/ \E document \in FileContents : Tamper(document)

Spec == Init /\ [][Next]_vars

\* The rate-limited backend: one caller resolving one description, the backend
\* sending every hint, a clock that ticks in seconds. Operations start while
\* the clock is within the largest hint.
InitRate == InitWith({Absent}, {{}, {<<"#a">>}}, PlainStyles, {Undefined})

NextRate ==
    \/ /\ now <= MaxHintSeconds * MsPerSecond
       /\ \E r \in RetriesOptions : StartCall("c1", "aiLocator", "d1", r)
    \/ Resolve("c1", Hints)
    \/ Finish("c1")
    \/ Reset("c1")
    \/ now <= MaxHintSeconds * MsPerSecond /\ Tick(MsPerSecond)

SpecRate == InitRate /\ [][NextRate]_vars

\* The credential provider: one caller, an environment whose API key is set
\* and unset, a clock that jumps by the token's lifetime and by one
\* millisecond more.
InitToken == InitWith({Absent}, {{}, {<<"#a">>}}, PlainStyles, ApiKeys)

NextToken ==
    \/ /\ now <= MaxClockMinutes * 60 * MsPerSecond
       /\ StartCall("c1", "aiLocator", "d1", Num(1))
    \/ Resolve("c1", {0})
    \/ Finish("c1")
    \/ Reset("c1")
    \/ \E key \in ApiKeys : SetEnv(key)
    \/ /\ now <= MaxClockMinutes * 60 * MsPerSecond
       /\ \E ms \in {TokenLifetimeMs, TokenLifetimeMs + 1} : Tick(ms)

SpecToken == InitToken /\ [][NextToken]_vars

\* The highlight: one caller highlighting elements whose outline and zIndex
\* are set or not, on a page that changes.
StartStyles == [Selectors -> {PlainStyle, [outline |-> "1px dotted", zIndex |-> "7"], HighlightStyle}]
InitHighlight == InitWith({Absent, Json(StaleCache)}, SUBSET Selectors, StartStyles, {Undefined})

NextHighlight ==
    \/ \E r \in {Undefined, Num(1)} : StartCall("c1", "highlightAILocator", "d1", r)
    \/ Resolve("c1", {0})
    \/ HighlightStart("c1")
    \/ HighlightEnd("c1")
    \/ Reset("c1")
    \/ \E matching \in SUBSET Selectors : MutatePage(matching)

SpecHighlight == InitHighlight /\ [][NextHighlight]_vars

\* Two callers, each resolving one locator, against the same cache file and
\* the same page; every interleaving of their steps at the awaits.
InitRace == InitWith({Absent, Json(StaleCache)}, {Selectors}, PlainStyles, {Undefined})

NextRace ==
    \E c \in Callers :
        \/ \E d \in Descriptions : StartCall(c, "aiLocator", d, Num(1))
        \/ Resolve(c, {0})
        \/ Finish(c)

SpecRace == InitRace /\ [][NextRace]_vars

\* The same two callers, the write of the file taking time: a call may load
\* while the other's fs.writeFile has opened the file and not yet finished.
NextTorn ==
    \/ NextRace
    \/ \E c \in Callers : OpenForWrite(c)

SpecTorn == InitRace /\ [][NextTorn]_vars

\* One caller, a page that may reject content() and $(), a disk that may
\* reject the write of the cache file.
InitFaults == InitWith({Absent, Json(StaleCache)}, SUBSET Selectors, PlainStyles, {Undefined})

NextFaults ==
    \/ \E d \in Descriptions, r \in RetriesOptions : StartCall("c1", "aiLocator", d, r)
    \/ Resolve("c1", {0})
    \/ \E left \in {file, Truncated} : SaveFails("c1", left)
    \/ ContentFails("c1")
    \/ CheckFails("c1")
    \/ Finish("c1")
    \/ Reset("c1")

SpecFaults == InitFaults /\ [][NextFaults]_vars

\* Two callers and one credential provider: each resolves a locator, call
\* after call, with a budget of one attempt; the clock jumps by the token's
\* lifetime and by one millisecond more, at any point of either call.
NextTokenRace ==
    \/ \E c \in Callers :
          \/ /\ now <= MaxClockMinutes * 60 * MsPerSecond
             /\ StartCall(c, "aiLocator", "d1", Num(1))
          \/ Resolve(c, {0})
          \/ Finish(c)
          \/ Reset(c)
    \/ /\ now <= MaxClockMinutes * 60 * MsPerSecond
       /\ \E ms \in {TokenLifetimeMs, TokenLifetimeMs + 1} : Tick(ms)

SpecTokenRace == InitWith({Absent}, {{<<"#a">>}}, PlainStyles, {Undefined}) /\ [][NextTokenRace]_vars

\* ------------------------------------------------------------ claims

QueryFailures ==
    Failures \cup {"credentials-failed", "rate-limited"}
Unvalidated == QueryFailures \cup {"no-match", "model-declined", "model-empty"}
InQuery == {"query", "acquire", "fetch", "wait"}
InAttempt == InQuery \cup {"content", "check", "save"}

\* C1: the entry a resolution call has just persisted for its (URL, description)
\* is the candidate of that call's attempt, from the cache or the model, and it
\* matched an element of the page the call checked it against; after an attempt
\* that ended with no match, an "ERROR:" answer, an empty answer or a failed
\* query the file is still what it was when the call started.
ValidationBeforeCaching ==
    /\ (written # NothingWritten /\ Truthy(written.entry)) =>
          /\ written.entry.t = "str"
          /\ written.entry.s \in written.checked
          /\ written.source \in {"cache", "model"}
    /\ \A c \in Callers :
          ghost[c].last \in Unvalidated => file = ghost[c].fileAtStart

\* C1 witness: a selector the model proposed was validated and persisted.
ModelSelectorPersisted ==
    /\ written # NothingWritten
    /\ written.source = "model"
    /\ Truthy(written.entry)
    /\ written.entry.s \in written.checked

\* The entry of (pageUrl, description) in the document a call started with.
EntryAtStart(c) ==
    CachedEntry(loadCache(ghost[c].fileAtStart), call[c].pageUrl, call[c].description)

\* C2: a call for a pair that an earlier call resolved, with the page and the
\* file unchanged since, sends no request to the backend, does not fail, and
\* returns the cached selector on its first attempt.
SettledPairResolvesFromCache ==
    \A c \in Callers :
        ghost[c].settled =>
            /\ ghost[c].requests = 0
            /\ ghost[c].source # "model"
            /\ call[c].pc # "threw"
            /\ call[c].pc = "returned" =>
                  /\ ghost[c].attempts = 1
                  /\ ghost[c].first = "cache"
                  /\ call[c].result = EntryAtStart(c)

\* The first attempt used the cached selector and it matched nothing.
StaleHit(c) ==
    /\ ghost[c].first = "cache"
    /\ ghost[c].attempts >= 1
    /\ ~(ghost[c].attempts = 1 /\ ghost[c].last = "match")

\* What C3 says of every call: after the first attempt the cache is not used
\* again, and the stale hit's attempt sent no request.
CacheOnlyFirst(c) ==
    /\ ghost[c].attempts >= 1 => ghost[c].source # "cache"
    /\ (StaleHit(c) /\ ghost[c].attempts = 1 /\ ghost[c].source = "none") =>
          ghost[c].requests = 0 /\ call[c].retries = 1

\* C3 as stated: after a stale cache hit the second attempt is a model query,
\* whatever the retry budget.
StaleHitFallsBackForEveryBudget ==
    \A c \in Callers :
        /\ CacheOnlyFirst(c)
        /\ (StaleHit(c) /\ ghost[c].attempts = 1 /\ call[c].pc # "loop") =>
              ghost[c].source = "model" /\ call[c].pc \in InAttempt

\* C3 amended: after a stale cache hit the second attempt is a model query when
\* the budget is at least 2; with a budget of 1 the call ends with the
\* exhausted error and no request was sent.
StaleHitFallsBack ==
    \A c \in Callers :
        /\ CacheOnlyFirst(c)
        /\ (StaleHit(c) /\ ghost[c].attempts = 1 /\ call[c].pc # "loop") =>
              IF call[c].maxRetries >= 2
              THEN ghost[c].source = "model" /\ call[c].pc \in InAttempt
              ELSE /\ call[c].pc = "threw"
                   /\ call[c].result = Exhausted(call[c].description)
                   /\ ghost[c].requests = 0

\* C3 witness: the second attempt, after a stale hit, has sent its request.
FellBackToModel ==
    \E c \in Callers :
        /\ StaleHit(c)
        /\ ghost[c].attempts = 1
        /\ call[c].pc = "check"
        /\ ghost[c].source = "model"
        /\ ghost[c].requests = 1

\* The candidate of the current attempt matched the page it was checked against.
Validated(c) == call[c].selector.t = "str" /\ call[c].selector.s \in ghost[c].checked

\* C4: a call none of whose candidates validated ends, after exactly maxRetries
\* attempts, with the error that names the description; a call that returns,
\* returns a non-empty selector string.
UnmatchedExhaustsBudget ==
    \A c \in Callers :
        /\ (call[c].pc = "threw" /\ ~Validated(c)) =>
              /\ call[c].result = Exhausted(call[c].description)
              /\ ghost[c].attempts = call[c].maxRetries
        /\ call[c].pc = "returned" =>
              call[c].result.t = "str" /\ call[c].result.s # <<>>

\* C6: after an attempt whose model query failed the call is back at the loop
\* test with nothing thrown, or has left it with the exhausted error, the
\* budget used up; the retry counter counts the attempts ended; the only errors
\* a call throws are the exhausted error and a TypeError from the cache object.
QueryFailureAdvances ==
    \A c \in Callers :
        /\ ghost[c].last \in QueryFailures =>
              \/ call[c].pc = "loop" /\ call[c].result = Undefined
              \/ /\ call[c].pc = "threw"
                 /\ call[c].result = Exhausted(call[c].description)
                 /\ call[c].retries = call[c].maxRetries
        /\ call[c].pc \in InAttempt \cup {"loop"} =>
              call[c].retries = ghost[c].attempts
        /\ call[c].pc = "threw" =>
              \/ call[c].result = TypeError
              \/ /\ call[c].result = Exhausted(call[c].description)
                 /\ call[c].retries = call[c].maxRetries

\* C6 witness: a query has failed and the call is in its next attempt's query.
FailedQueryThenNextAttempt ==
    \E c \in Callers :
        /\ ghost[c].last \in QueryFailures
        /\ ghost[c].attempts = 2
        /\ call[c].retries < call[c].maxRetries

\* The document is absent, unreadable, or a two-level mapping.
TwoLevel(v) ==
    /\ v.t = "obj"
    /\ \A u \in DOMAIN v.props :
          /\ v.props[u].t = "obj"
          /\ \A d \in DOMAIN v.props[u].props : v.props[u].props[d].t = "str"

\* C7: whatever the file holds, no call fails with a TypeError from the cache
\* object, and a call whose file held no two-level mapping starts its loop with
\* the empty mapping.
CacheContentNeverBlocks ==
    \A c \in Callers :
        /\ call[c].result # TypeError
        /\ (call[c].pc = "loop" /\ ghost[c].attempts = 0
              /\ ~(ghost[c].fileAtStart.k = "json" /\ TwoLevel(ghost[c].fileAtStart.v))) =>
              call[c].cache = EmptyObj

\* C5: after a rate-limited answer with a hint of n seconds (none: 30) the
\* call is back at the loop test no earlier than n seconds after the answer,
\* with one more attempt counted and nothing thrown, or has left the loop with
\* the exhausted error; a call has sent at most one request per attempt.
RateLimitWaitsThenCounts ==
    \A c \in Callers :
        LET q == ghost[c].query
            seconds == IF q.hint = NoHint THEN 30 ELSE q.hint
        IN  /\ (ghost[c].last = "rate-limited" /\ q.hint # DateHint) =>
                  /\ now >= q.rateLimitedAt + seconds * 1000
                  /\ call[c].retries = ghost[c].attempts
                  /\ \/ call[c].pc = "loop"
                     \/ call[c].pc = "threw" /\ call[c].retries = call[c].maxRetries
            /\ ghost[c].requests <=
                  ghost[c].attempts + (IF call[c].pc \in {"wait", "check", "save"} THEN 1 ELSE 0)
            /\ call[c].pc = "wait" =>
                  call[c].retries = ghost[c].attempts /\ ghost[c].requests >= 1

\* C5 witness: a rate-limited answer without a hint was waited out for 30
\* seconds and the call is about to start its next attempt.
WaitedDefaultThenRetries ==
    \E c \in Callers :
        /\ ghost[c].last = "rate-limited"
        /\ ghost[c].query.hint = NoHint
        /\ now >= ghost[c].query.rateLimitedAt + 30000
        /\ call[c].pc = "loop"
        /\ call[c].retries < call[c].maxRetries

\* C8: when getValidAccessToken has returned, it has acquired a token and
\* replaced the cache with (that token, the time it read) exactly when the cache
\* was empty or its timestamp more than 59 minutes before; otherwise the cache
\* is what it was and its token was returned; the token returned was acquired
\* no more than 59 minutes before the return.
TokenReusedWithin59Minutes ==
    \A c \in Callers :
        (call[c].pc = "fetch" /\ call[c].authorization # Undefined) =>
            LET q == ghost[c].query
                expired == q.entryCache = JsNull
                              \/ q.entryNow - q.entryCache.timestamp > 59 * 60 * 1000
            IN  /\ IF expired
                   THEN /\ q.acquisitions = 1
                        /\ tokenCache.token = call[c].authorization
                        /\ tokenCache.timestamp = q.entryNow
                        /\ call[c].authorization.acquiredAt >= q.entryNow
                   ELSE /\ q.acquisitions = 0
                        /\ tokenCache = q.entryCache
                        /\ call[c].authorization = q.entryCache.token
                /\ q.returnedAt - call[c].authorization.acquiredAt <= 59 * 60 * 1000

\* C8 witness: a cached token older than 59 minutes was replaced.
ExpiredTokenReplaced ==
    \E c \in Callers :
        /\ call[c].pc = "fetch"
        /\ ghost[c].query.entryCache # JsNull
        /\ ghost[c].query.acquisitions = 1
        /\ tokenCache # ghost[c].query.entryCache

\* C9: a model query posts to the key endpoint exactly when the environment
\* holds a non-empty API key, and then nothing is acquired, no bearer token is
\* sent and the token cache is what it was; otherwise it posts to the token
\* endpoint with the token cache's token as bearer; getCurrentAPIEndpoint,
\* asked in the same environment, names the endpoint the query posts to.
AuthenticationModeFollowsKey ==
    \A c \in Callers :
        call[c].pc \in {"acquire", "fetch", "wait"} =>
            LET q == ghost[c].query
                configured == q.key.t = "str" /\ q.key.s # <<>>
            IN  IF configured
                THEN /\ call[c].url = "generativelanguage.googleapis.com"
                     /\ q.reported = "API key based endpoint (generativelanguage.googleapis.com)"
                     /\ call[c].pc # "acquire"
                     /\ q.acquisitions = 0
                     /\ call[c].authorization = Undefined
                     /\ tokenCache = q.entryCache
                ELSE /\ call[c].url = "aiplatform.googleapis.com"
                     /\ q.reported = "Access token based endpoint (aiplatform.googleapis.com)"
                     /\ call[c].pc = "fetch" =>
                           /\ tokenCache # JsNull
                           /\ call[c].authorization = tokenCache.token

\* C9 witness: with a token cached, a query in key mode has posted to the key
\* endpoint.
KeyModeBypassesProvider ==
    \E c \in Callers :
        /\ call[c].pc = "fetch"
        /\ call[c].url = "generativelanguage.googleapis.com"
        /\ tokenCache # JsNull

\* C10: while the highlight's timer runs the element shows the red outline
\* and the raised zIndex and every other element its style from before the
\* operation; when highlightAILocator has resolved, with or without a matching
\* element, every element has the outline and zIndex it had before the
\* operation, and nothing was thrown.
HighlightRestoresStyle ==
    \A c \in Callers :
        call[c].op = "highlightAILocator" =>
            /\ call[c].pc = "highlighting" =>
                  /\ style[call[c].selector.s].outline = "3px solid red"
                  /\ style[call[c].selector.s].zIndex = "10000"
                  /\ call[c].original = ghost[c].styleAtStart[call[c].selector.s]
                  /\ \A e \in Selectors \ {call[c].selector.s} :
                        style[e] = ghost[c].styleAtStart[e]
            /\ call[c].pc = "done" =>
                  /\ style = ghost[c].styleAtStart
                  /\ call[c].result = Undefined
            /\ call[c].pc \notin {"highlighting", "done"} => style = ghost[c].styleAtStart

\* C10 witness: an element with an outline and a zIndex of its own was
\* highlighted and has them back.
HighlightedAndRestored ==
    \E c \in Callers :
        /\ call[c].pc = "done"
        /\ call[c].op = "highlightAILocator"
        /\ call[c].original = [outline |-> "1px dotted", zIndex |-> "7"]

\* The call has returned a selector that the persisted document does not hold
\* for the call's (URL, description).
LostEntry(c) ==
    /\ call[c].pc \in {"returned", "done"}
    /\ CachedEntry(loadCache(file), call[c].pageUrl, call[c].description) # call[c].selector

\* C11: the document a call's save leaves is the snapshot that call loaded with
\* the call's own entry stored into it, whatever the file held at the save; so
\* when a call has returned and the file lacks its entry, another call saved
\* last and that call's snapshot was loaded without the entry.
SaveRewritesLoadedSnapshot ==
    \A c \in Callers :
        /\ (written # NothingWritten /\ written.by = c) =>
              file = saveCache(UpdateCache(loadCache(ghost[c].loaded), call[c].pageUrl,
                                           call[c].description, call[c].selector))
        /\ LostEntry(c) =>
              \E o \in Callers \ {c} :
                  /\ written.by = o
                  /\ CachedEntry(loadCache(ghost[o].loaded), call[c].pageUrl,
                                 call[c].description) # call[c].selector

\* C11 witness: both calls have returned a selector for different descriptions
\* and the file holds the entry of one of them only.
LostUpdate ==
    \E c \in Callers, o \in Callers :
        /\ call[c].pc = "done" /\ call[o].pc = "done"
        /\ call[c].description # call[o].description
        /\ LostEntry(c)
        /\ ~LostEntry(o)

\* C12: a call that loaded while another call's save was writing the file
\* starts with the mapping the file held before that save or with the mapping
\* the save leaves.
LoadSeesWholeDocument ==
    \A c \in Callers, w \in Callers :
        ( /\ call[c].pc = "loop" /\ ghost[c].attempts = 0
          /\ ghost[c].loaded = Truncated
          /\ ghost[w].replaced # Undefined ) =>
            \/ call[c].cache = loadCache(ghost[w].replaced)
            \/ call[c].cache = Stringify(call[w].cache)

\* The entry the persisted document holds for the call's (URL, description).
EntryNow(c) == CachedEntry(loadCache(file), call[c].pageUrl, call[c].description)

\* C13: when a call has returned a selector, the persisted entry of its pair is
\* what it was when the call started, unless the returned selector came from
\* the model and matched the page, and then the entry is that selector.
ResolutionKeepsEntry ==
    \A c \in Callers :
        call[c].pc = "returned" =>
            \/ EntryNow(c) = EntryAtStart(c)
            \/ /\ written.source = "model"
               /\ call[c].selector.s \in written.checked
               /\ EntryNow(c) = call[c].selector

\* C13 witness: a call repeated for a pair already resolved has returned the
\* cached selector and the entry is the one it started with.
RepeatKeptEntry ==
    \E c \in Callers :
        /\ call[c].pc = "returned"
        /\ ghost[c].settled
        /\ written.source = "cache"
        /\ Truthy(EntryNow(c))
        /\ EntryNow(c) = EntryAtStart(c)

\* The entry of the call's pair in the snapshot the call loaded.
EntryLoaded(c) ==
    CachedEntry(loadCache(ghost[c].loaded), call[c].pageUrl, call[c].description)

\* The requests the call has sent: those answered and the one in flight.
Queries(c) == ghost[c].requests + (IF call[c].pc = "fetch" THEN 1 ELSE 0)

\* The call has a selector that matched the page.
HasValidated(c) == Validated(c) \/ call[c].pc \in {"returned", "done"}

\* C14: a call with budget maxRetries has ended at most maxRetries attempts
\* and sent at most maxRetries requests, one fewer when the snapshot it loaded
\* holds a selector for its pair; once a selector has matched the page the
\* call sends no request and starts no attempt.
BoundedModelUse ==
    /\ [](\A c \in Callers :
            call[c].pc \notin {"idle", "load"} =>
                /\ ghost[c].attempts <= call[c].maxRetries
                /\ ghost[c].attempts + (IF call[c].pc \in InAttempt THEN 1 ELSE 0)
                      <= call[c].maxRetries
                /\ Queries(c) <= call[c].maxRetries
                /\ (EntryLoaded(c).t = "str" /\ EntryLoaded(c).s # <<>>) =>
                      Queries(c) <= call[c].maxRetries - 1)
    /\ [][\A c \in Callers :
            (HasValidated(c) /\ call'[c].pc # "idle") =>
                /\ ghost'[c].requests = ghost[c].requests
                /\ call'[c].pc \notin InQuery \cup {"loop", "content", "check"}]_vars

\* C14 witness: a call that started with a cached selector used its whole
\* budget of 2: the cache attempt and one request.
CachedCallSpentBudget ==
    \E c \in Callers :
        /\ call[c].pc = "threw"
        /\ call[c].maxRetries = 2
        /\ ghost[c].first = "cache"
        /\ ghost[c].attempts = 2
        /\ ghost[c].requests = 1

\* C15: when a call has failed with the exhausted error, the file is the
\* document it was when the call started, the call has saved nothing, and an
\* entry the file held for the call's pair is still there.
ExhaustedLeavesCache ==
    \A c \in Callers :
        (call[c].pc = "threw" /\ call[c].result = Exhausted(call[c].description)) =>
            /\ file = ghost[c].fileAtStart
            /\ written = NothingWritten
            /\ Truthy(EntryAtStart(c)) => EntryNow(c) = EntryAtStart(c)

\* C15 witness: a call whose cached selector matched nothing, and whose model
\* candidates did no better, has failed and the stale entry is in the file.
StaleEntrySurvivesFailure ==
    \E c \in Callers :
        /\ call[c].pc = "threw"
        /\ call[c].result = Exhausted(call[c].description)
        /\ ghost[c].first = "cache"
        /\ ghost[c].last = "no-match"
        /\ ghost[c].requests >= 1
        /\ EntryNow(c) = EntryAtStart(c)
        /\ EntryNow(c).t = "str"

\* C16: when a call that started with a two-level mapping in the file has
\* returned, every (URL, description) other than its own has in the file the
\* entry it had when the call started, or none as before.
OtherEntriesKept ==
    \A c \in Callers :
        ( /\ call[c].pc = "returned"
          /\ ghost[c].fileAtStart.k = "json"
          /\ TwoLevel(ghost[c].fileAtStart.v) ) =>
            /\ file.k = "json" /\ TwoLevel(file.v)
            /\ \A u \in URLs, d \in Descriptions :
                  <<u, d>> # <<call[c].pageUrl, call[c].description>> =>
                      CachedEntry(file.v, u, d) = CachedEntry(ghost[c].fileAtStart.v, u, d)

\* C16 witness: a call has stored a new entry next to the one the file held.
StoredNextToOldEntry ==
    \E c \in Callers :
        /\ call[c].pc = "returned"
        /\ ghost[c].fileAtStart = Json(StaleCache)
        /\ <<call[c].pageUrl, call[c].description>> # <<"u1", "d1">>
        /\ written.source = "model"
        /\ EntryNow(c) = call[c].selector
        /\ CachedEntry(file.v, "u1", "d1") = Str(<<"#a">>)

\* C17: a call whose save failed has thrown the write error: its candidate had
\* matched the page, the failure was not counted as an attempt though budget
\* was left, and from there the call starts nothing more.
WriteFailurePropagates ==
    /\ [](\A c \in Callers :
            /\ call[c].result = WriteError =>
                  /\ call[c].pc = "threw"
                  /\ Validated(c)
                  /\ call[c].retries = ghost[c].attempts
                  /\ call[c].retries < call[c].maxRetries
            /\ ghost[c].last # "write-failed")
    /\ [][\A c \in Callers :
            call[c].result = WriteError => call'[c].pc \in {"threw", "idle"}]_vars

\* C17 witness: with the whole default budget left, the save of a validated
\* model selector failed and the call has thrown.
ValidatedButWriteFailed ==
    \E c \in Callers :
        /\ call[c].pc = "threw"
        /\ call[c].result = WriteError
        /\ call[c].maxRetries = 3
        /\ ghost[c].attempts = 0
        /\ ghost[c].requests = 1
        /\ Validated(c)

\* C20: a call that the page failed, at content() or at $(), has thrown the
\* page's error: the attempt was not counted though budget was left, the call
\* has saved nothing and the file is the document it was when the call
\* started; from there the call starts nothing more.
PageErrorPropagates ==
    /\ [](\A c \in Callers :
            /\ call[c].result = PageError =>
                  /\ call[c].pc = "threw"
                  /\ call[c].retries = ghost[c].attempts
                  /\ call[c].retries < call[c].maxRetries
                  /\ file = ghost[c].fileAtStart
                  /\ written = NothingWritten
            /\ ghost[c].last # "page-failed")
    /\ [][\A c \in Callers :
            call[c].result = PageError =>
                /\ call'[c].pc \in {"threw", "idle"}
                /\ file' = file]_vars

\* C20 witness: after one attempt that failed, the page rejected content() in
\* the second attempt, with one attempt of the budget still unused.
PageFailedMidBudget ==
    \E c \in Callers :
        /\ call[c].pc = "threw"
        /\ call[c].result = PageError
        /\ call[c].maxRetries = 3
        /\ ghost[c].attempts = 1
        /\ call[c].selector = JsNull

\* C18: under every interleaving of two callers' getValidAccessToken, the
\* timestamp in the token cache is no later than the moment its token was
\* acquired; a call that found the cache empty or expired has acquired once
\* and sends the token it acquired, obtained after it read the clock; a call
\* that found it fresh sends the cached token; no call sends a token acquired
\* more than 59 minutes before getValidAccessToken returned it.
TokenRefreshRaceHarmless ==
    /\ tokenCache # JsNull => tokenCache.timestamp <= tokenCache.token.acquiredAt
    /\ \A c \in Callers :
          (call[c].pc = "fetch" /\ call[c].authorization # Undefined) =>
              LET q == ghost[c].query
                  expired == q.entryCache = JsNull
                                \/ q.entryNow - q.entryCache.timestamp > 59 * 60 * 1000
              IN  /\ IF expired
                     THEN /\ q.acquisitions = 1
                          /\ call[c].authorization.acquiredAt >= q.entryNow
                          /\ call[c].authorization.acquiredAt = q.returnedAt
                     ELSE /\ q.acquisitions = 0
                          /\ call[c].authorization = q.entryCache.token
                  /\ q.returnedAt - call[c].authorization.acquiredAt <= 59 * 60 * 1000

\* C18 witness: both callers found no usable token and each acquired one;
\* the cache holds the token acquired first, written last, with a timestamp
\* from before the other caller read the clock.
RedundantAcquisitions ==
    \E c \in Callers, o \in Callers :
        /\ call[c].pc = "fetch" /\ call[o].pc = "fetch"
        /\ ghost[c].query.acquisitions = 1 /\ ghost[o].query.acquisitions = 1
        /\ call[c].authorization # call[o].authorization
        /\ tokenCache.token = call[c].authorization
        /\ tokenCache.timestamp < ghost[o].query.entryNow

\* C19: once the budget is set it is the caller's retries option when that is
\* a positive number and 3 when the option is absent or 0; it is never 0; a
\* call ends at most that many attempts and fails as exhausted after exactly
\* that many.
RetriesOptionSetsBudget ==
    \A c \in Callers :
        call[c].pc \notin {"idle", "load"} =>
            LET option == call[c].retriesOption
            IN  /\ call[c].maxRetries =
                      IF option.t = "num" /\ option.n > 0 THEN option.n ELSE 3
                /\ call[c].maxRetries >= 1
                /\ ghost[c].attempts <= call[c].maxRetries
                /\ (call[c].pc = "threw" /\ call[c].result = Exhausted(call[c].description)) =>
                      ghost[c].attempts = call[c].maxRetries

\* C19 witness: a call that asked for 0 retries has made three attempts, the
\* last two with a request each, and failed as exhausted.
ZeroRetriesMadeThreeAttempts ==
    \E c \in Callers :
        /\ call[c].retriesOption = Num(0)
        /\ call[c].pc = "threw"
        /\ call[c].result = Exhausted(call[c].description)
        /\ ghost[c].attempts = 3
        /\ ghost[c].requests >= 2

====
